---- MODULE Spec2Model ----
(***************************************************************************)
(* Model of voice.py: the process-wide action registry, the matchers, the  *)
(* dispatcher (perform_action), the per-instance command history and its   *)
(* save / replay.  Python strings are TLA+ strings; a character is a       *)
(* string of length one.                                                   *)
(***************************************************************************)
EXTENDS Integers, Sequences, FiniteSets, TLC

VARIABLES
    action_registry,  \* _action_registry: the dict, as its items() in insertion order
    history,          \* self.history of every control instance
    now,              \* the wall clock read by datetime.datetime.now()
    file,             \* the content of the history file, or NoFile
    registrations,    \* how many times a register_action decorator ran after the import
    last              \* the operation that ran last, its inputs, its outcome and its calls

vars == <<action_registry, history, now, file, registrations, last>>

(***************************************************************************)
(* Bounds of the model.                                                    *)
(***************************************************************************)
MaxRegistrations == 1   \* register_action calls made after the module is imported
MaxHistory == 2         \* add_to_history calls
MaxLen == 3             \* length of the enumerated pattern and command strings

(***************************************************************************)
(* Strings.                                                                *)
(***************************************************************************)
\* the slice s[i-1:j] of a str (positions count from 1 here); it stops at the end of s
Slice(s, i, j) ==
    IF i > j \/ i > Len(s) THEN "" ELSE SubSeq(s, i, IF j > Len(s) THEN Len(s) ELSE j)

Char(s, i) == Slice(s, i, i)

Whitespace == {" ", "\t", "\n"}

Digits == {"0", "1", "2", "3", "4", "5", "6", "7", "8", "9"}

\* str.startswith(prefix)
StartsWith(s, prefix) ==
    /\ Len(prefix) <= Len(s)
    /\ Slice(s, 1, Len(prefix)) = prefix

\* the operator `sub in s` on two str
Contains(s, sub) ==
    \E i \in 1..(Len(s) - Len(sub) + 1) : Slice(s, i, i + Len(sub) - 1) = sub

Min(S) == CHOOSE i \in S : \A j \in S : i <= j

Max(S) == CHOOSE i \in S : \A j \in S : j <= i

\* str.split() with no separator: the maximal runs of non-whitespace, in order
WordStarts(s) ==
    {i \in 1..Len(s) : Char(s, i) \notin Whitespace /\ (i = 1 \/ Char(s, i - 1) \in Whitespace)}

WordEnd(s, i) ==
    Min({j \in i..Len(s) : j = Len(s) \/ Char(s, j + 1) \in Whitespace})

Split(s) ==
    [k \in 1..Cardinality(WordStarts(s)) |->
        LET i == CHOOSE i \in WordStarts(s) :
                     Cardinality({j \in WordStarts(s) : j < i}) = k - 1
        IN Slice(s, i, WordEnd(s, i))]

(***************************************************************************)
(* The part of the re module's pattern syntax the registered patterns use: *)
(* literal characters, ".", "\d", "X+" on one of these, and named groups   *)
(* "(?P<name>...)".  A compiled pattern is a sequence of items; a run of   *)
(* literal characters is one item.                                         *)
(***************************************************************************)
Special == {"\\", ".", "+", "(", ")"}

GroupNameEnd(p, i) == Min({j \in i..(Len(p) + 1) : j > Len(p) \/ Char(p, j) = ">"})

\* the end of the run of literal characters that starts at i, none of them
\* quantified by a "+"; i - 1 when the character at i is quantified
LiteralEnd(p, i) ==
    Min({j \in i..(Len(p) + 1) :
            j > Len(p) \/ Char(p, j) \in Special \/ Char(p, j + 1) = "+"}) - 1

Item(t, c) == [t |-> t, c |-> c, plus |-> FALSE]

RECURSIVE CompileFrom(_, _, _, _)
CompileFrom(p, i, items, open) ==
    IF i > Len(p) THEN items
    ELSE LET c == Char(p, i) IN
         CASE c = "\\" ->
                LET d == Char(p, i + 1) IN
                CompileFrom(p, i + 2,
                    Append(items, IF d = "d" THEN Item("dig", "") ELSE Item("lit", d)),
                    open)
           [] c = "." ->
                CompileFrom(p, i + 1, Append(items, Item("any", "")), open)
           [] c = "+" /\ Len(items) > 0 ->
                CompileFrom(p, i + 1, [items EXCEPT ![Len(items)].plus = TRUE], open)
           [] c = "(" /\ Slice(p, i, i + 3) = "(?P<" ->
                LET e == GroupNameEnd(p, i + 4)
                    name == Slice(p, i + 4, e - 1) IN
                CompileFrom(p, e + 1, Append(items, Item("open", name)), <<name>> \o open)
           [] c = ")" /\ Len(open) > 0 ->
                CompileFrom(p, i + 1, Append(items, Item("close", Head(open))), Tail(open))
           [] OTHER ->
                LET e == IF LiteralEnd(p, i) < i THEN i ELSE LiteralEnd(p, i) IN
                CompileFrom(p, e + 1, Append(items, Item("lit", Slice(p, i, e))), open)

\* re.compile(pattern)
Compile(p) == CompileFrom(p, 1, <<>>, <<>>)

\* whether a quantified item of a compiled pattern accepts the character c
AtomOk(item, c) ==
    CASE item.t = "lit" -> c = item.c
      [] item.t = "any" -> c # "\n" /\ c # ""
      [] item.t = "dig" -> c \in Digits
      [] OTHER -> FALSE

NoMatch == [ok |-> FALSE, end |-> 0, caps |-> <<>>]

\* how many characters of s from pos on the item accepts
RunLen(item, s, pos) ==
    Max({n \in 0..(Len(s) - pos + 1) : \A j \in 0..(n - 1) : AtomOk(item, Char(s, pos + j))})

\* the backtracking matcher: items[k..] against s from position pos; "X+" is
\* greedy, the longest run that lets the rest match is taken
RECURSIVE MatchHere(_, _, _, _, _, _)
MatchHere(items, k, s, pos, starts, caps) ==
    IF k > Len(items) THEN [ok |-> TRUE, end |-> pos, caps |-> caps]
    ELSE LET item == items[k] IN
         CASE item.t = "open" ->
                MatchHere(items, k + 1, s, pos, (item.c :> pos) @@ starts, caps)
           [] item.t = "close" ->
                MatchHere(items, k + 1, s, pos, starts,
                          (item.c :> Slice(s, starts[item.c], pos - 1)) @@ caps)
           [] item.plus ->
                LET fit == {n \in 1..RunLen(item, s, pos) :
                               MatchHere(items, k + 1, s, pos + n, starts, caps).ok}
                IN IF fit = {} THEN NoMatch
                   ELSE MatchHere(items, k + 1, s, pos + Max(fit), starts, caps)
           [] item.t = "lit" ->
                IF Slice(s, pos, pos + Len(item.c) - 1) = item.c
                THEN MatchHere(items, k + 1, s, pos + Len(item.c), starts, caps)
                ELSE NoMatch
           [] OTHER ->
                IF AtomOk(item, Char(s, pos))
                THEN MatchHere(items, k + 1, s, pos + 1, starts, caps)
                ELSE NoMatch

\* re.search(pattern, string): the leftmost match; .ok is its truth value and
\* .caps its groupdict()
re_search(pattern, string) ==
    LET items == Compile(pattern)
        found == {i \in 1..(Len(string) + 1) : MatchHere(items, 1, string, i, <<>>, <<>>).ok}
    IN IF found = {} THEN NoMatch
       ELSE MatchHere(items, 1, string, Min(found), <<>>, <<>>)

(***************************************************************************)
(* MatchType and the matcher.                                              *)
(***************************************************************************)
MatchType == {"ALL_KEYWORDS", "DYNAMIC", "STARTS_WITH", "STATIC", "SUBSTRING"}

\* is_match with ALL_KEYWORDS testing each word against the words of the
\* command (word in command.split()) instead of the command
is_match_whole_words(command, pattern, match_type) ==
    IF match_type = "SUBSTRING" /\ re_search(pattern, command).ok
    THEN TRUE
    ELSE IF match_type = "ALL_KEYWORDS"
    THEN \A i \in 1..Len(Split(pattern)) :
             \E k \in 1..Len(Split(command)) : Split(command)[k] = Split(pattern)[i]
    ELSE IF match_type = "STARTS_WITH" /\ StartsWith(command, pattern)
    THEN TRUE
    ELSE FALSE

\* MatchAndPerformMixin.is_match
is_match(command, pattern, match_type) ==
    IF match_type = "SUBSTRING" /\ re_search(pattern, command).ok
    THEN TRUE
    ELSE IF match_type = "ALL_KEYWORDS"
    THEN \A i \in 1..Len(Split(pattern)) : Contains(command, Split(pattern)[i])
    ELSE IF match_type = "STARTS_WITH" /\ StartsWith(command, pattern)
    THEN TRUE
    ELSE FALSE

(***************************************************************************)
(* The control classes, their instances and their handler methods.         *)
(***************************************************************************)
Instances == {"test_control", "paint_app"}

ClassOf(self) == IF self = "test_control" THEN "TestControl" ELSE "PaintAppControl"

Funcs == {"turn_on_light", "play_music", "make_rectangle"}

\* the class whose body defines the method
OwnerOf(func) == IF func = "make_rectangle" THEN "PaintAppControl" ELSE "TestControl"

\* the parameters of a handler besides self; none has a default
Params(func) ==
    IF func = "make_rectangle" THEN {"width", "height", "position"} ELSE {}

\* the value a handler returns once its parameters are bound
Body(func, kwargs) ==
    CASE func = "turn_on_light" -> "Turning on the light"
      [] func = "play_music" -> "Playing music"
      [] func = "make_rectangle" ->
            "Making rectangle of width " \o kwargs["width"] \o ", height "
                \o kwargs["height"] \o " at " \o kwargs["position"]

Return(value) == [kind |-> "return", value |-> value]

Raise(exception) == [kind |-> "raise", value |-> exception]

\* the call action(self, **kwargs): Python binds the keyword arguments to the
\* parameters first and raises TypeError when they do not fit
Call(func, kwargs) ==
    IF DOMAIN kwargs = Params(func) THEN Return(Body(func, kwargs)) ELSE Raise("TypeError")

NoArgs == <<>>

(***************************************************************************)
(* The registry: a dict from pattern to (func, match_type).  A dict keeps  *)
(* its keys in insertion order, and assigning to a key that is present     *)
(* replaces the value where the key stands.                                *)
(***************************************************************************)
Entry(pattern, func, match_type) ==
    [pattern |-> pattern, action |-> func, match_type |-> match_type]

Keys(registry) == {registry[i].pattern : i \in 1..Len(registry)}

IndexOf(registry, pattern) == CHOOSE i \in 1..Len(registry) : registry[i].pattern = pattern

\* a registry kept as a list of entries: every registration appends
SetItemAppend(registry, pattern, func, match_type) ==
    Append(registry, Entry(pattern, func, match_type))

\* _action_registry[pattern] = (func, match_type)
SetItem(registry, pattern, func, match_type) ==
    IF pattern \in Keys(registry)
    THEN [registry EXCEPT ![IndexOf(registry, pattern)] = Entry(pattern, func, match_type)]
    ELSE Append(registry, Entry(pattern, func, match_type))

RectanglePattern ==
    "make rectangle of width (?P<width>\\d+) and height (?P<height>\\d+) with top left corner at (?P<position>.+)"

\* the registry once the module is imported: the three decorated methods, in
\* the order of their definition
ShippedRegistry ==
    SetItem(SetItem(SetItem(<<>>,
        "turn on the light", "turn_on_light", "SUBSTRING"),
        "play music", "play_music", "STARTS_WITH"),
        RectanglePattern, "make_rectangle", "DYNAMIC")

\* a registry of its own per class: the entries whose method the class defines
RegistryOfOwnClass(self) ==
    SelectSeq(action_registry, LAMBDA entry : OwnerOf(entry.action) = ClassOf(self))

\* self.action_registry, which __init__ binds to the module's one dict
RegistryOf(self) == action_registry

(***************************************************************************)
(* The inputs of the operations.                                           *)
(***************************************************************************)
RectangleCommand ==
    "make rectangle of width 10 and height 20 with top left corner at 0,0"

RectangleArgs == [width |-> "10", height |-> "20", position |-> "0,0"]

\* the commands given to perform_action
Commands ==
    {"turn on the light", "play music", RectangleCommand, "do something unknown",
     "please turn the light on now", "turn the light"}

\* the patterns given to register_action: the three shipped keys and two more
RegisteredPatterns ==
    {"turn on the light", "play music", RectanglePattern, "turn", "turn on light"}

\* the action ids add_to_history is given: two registry keys and a method name
HistoryActions == {"turn on the light", RectanglePattern, "make_rectangle"}

HistoryArgs == {NoArgs, RectangleArgs}

\* is_match over the commands and patterns above, evaluated once
is_match_values ==
    [command \in Commands |-> [pattern \in RegisteredPatterns |->
        [match_type \in MatchType |-> is_match(command, pattern, match_type)]]]

(***************************************************************************)
(* perform_action: the first entry, in the dict's order, whose matcher     *)
(* succeeds is called with no argument and its result returned.            *)
(***************************************************************************)
\* self.is_match(command, pattern, match_type) as perform_action evaluates it
Matches(command, entry) == is_match_values[command][entry.pattern][entry.match_type]

Matching(registry, command) == {i \in 1..Len(registry) : Matches(command, registry[i])}

NotRecognized == "Command not recognized"

\* a loop that keeps going after a match: the last matching entry wins
DispatchLastMatch(registry, command) ==
    LET m == Matching(registry, command) IN
    IF m = {}
    THEN [outcome |-> Return(NotRecognized), calls |-> <<>>]
    ELSE LET action == registry[Max(m)].action IN
         [outcome |-> Call(action, NoArgs),
          calls |-> <<[action |-> action, kwargs |-> NoArgs]>>]

\* a loop that calls the first matching handler and drops its result
DispatchDropResult(registry, command) ==
    LET m == Matching(registry, command) IN
    IF m = {}
    THEN [outcome |-> Return(NotRecognized), calls |-> <<>>]
    ELSE LET action == registry[Min(m)].action IN
         [outcome |-> IF Call(action, NoArgs).kind = "raise"
                      THEN Call(action, NoArgs) ELSE Return(NotRecognized),
          calls |-> <<[action |-> action, kwargs |-> NoArgs]>>]

Dispatch(registry, command) ==
    LET m == Matching(registry, command) IN
    IF m = {}
    THEN [outcome |-> Return(NotRecognized), calls |-> <<>>]
    ELSE LET action == registry[Min(m)].action IN
         [outcome |-> Call(action, NoArgs),
          calls |-> <<[action |-> action, kwargs |-> NoArgs]>>]

(***************************************************************************)
(* The history, its file and the replay.                                   *)
(***************************************************************************)
\* CommandHistory(action, datetime.datetime.now(), args)
CommandHistory(action, timestamp, args) ==
    [action |-> action, timestamp |-> timestamp, args |-> args]

\* the file before any save: open(filename, "r") finds nothing
NoFile == [exists |-> FALSE, content |-> <<>>]

\* str(timestamp), which json.dump applies through default=str
datetime_str(timestamp) == ToString(timestamp)

\* a dump that leaves the captured arguments out
json_dump_no_args(h) ==
    [exists |-> TRUE,
     content |-> [i \in 1..Len(h) |->
                    [action |-> h[i].action,
                     timestamp |-> datetime_str(h[i].timestamp),
                     args |-> NoArgs]]]

\* json.dump([asdict(command) for command in self.history], file, default=str):
\* the JSON array the file then holds
json_dump(h) ==
    [exists |-> TRUE,
     content |-> [i \in 1..Len(h) |->
                    [action |-> h[i].action,
                     timestamp |-> datetime_str(h[i].timestamp),
                     args |-> h[i].args]]]

\* a replay that skips the records whose action id is not registered
RECURSIVE ReplaySkipUnknown(_, _, _, _)
ReplaySkipUnknown(registry, commands, i, calls) ==
    IF i > Len(commands) THEN [outcome |-> Return("None"), calls |-> calls]
    ELSE IF commands[i].action \notin Keys(registry)
    THEN ReplaySkipUnknown(registry, commands, i + 1, calls)
    ELSE LET action == registry[IndexOf(registry, commands[i].action)].action
             called == Append(calls, [action |-> action, kwargs |-> commands[i].args])
             r == Call(action, commands[i].args) IN
         IF r.kind = "raise"
         THEN [outcome |-> r, calls |-> called]
         ELSE ReplaySkipUnknown(registry, commands, i + 1, called)

\* the loop of load_and_replay_history over the loaded commands: a missing key
\* or a call that raises ends it, and the exception leaves the method
RECURSIVE ReplayFrom(_, _, _, _)
ReplayFrom(registry, commands, i, calls) ==
    IF i > Len(commands) THEN [outcome |-> Return("None"), calls |-> calls]
    ELSE IF commands[i].action \notin Keys(registry)
    THEN [outcome |-> Raise("KeyError"), calls |-> calls]
    ELSE LET action == registry[IndexOf(registry, commands[i].action)].action
             called == Append(calls, [action |-> action, kwargs |-> commands[i].args])
             r == Call(action, commands[i].args) IN
         IF r.kind = "raise"
         THEN [outcome |-> r, calls |-> called]
         ELSE ReplayFrom(registry, commands, i + 1, called)

Replay(registry, f) ==
    IF ~f.exists
    THEN [outcome |-> Raise("FileNotFoundError"), calls |-> <<>>]
    ELSE ReplayFrom(registry, f.content, 1, <<>>)

(***************************************************************************)
(* The state once the module is imported and the instances are built.      *)
(***************************************************************************)
Init ==
    /\ action_registry = ShippedRegistry
    /\ history = [self \in Instances |-> <<>>]
    /\ now = 0
    /\ file = NoFile
    /\ registrations = 0
    /\ last = [op |-> "import"]

(***************************************************************************)
(* The operations.                                                         *)
(***************************************************************************)
\* @register_action(pattern, match_type) applied to func
register_action(pattern, match_type, func) ==
    /\ registrations < MaxRegistrations
    /\ action_registry' = SetItem(action_registry, pattern, func, match_type)
    /\ registrations' = registrations + 1
    /\ last' = [op |-> "register_action", pattern |-> pattern,
                match_type |-> match_type, action |-> func]
    /\ UNCHANGED <<history, now, file>>

perform_action(self, command) ==
    LET d == Dispatch(RegistryOf(self), command) IN
    /\ last' = [op |-> "perform_action", self |-> self, command |-> command,
                outcome |-> d.outcome, calls |-> d.calls]
    /\ UNCHANGED <<action_registry, history, now, file, registrations>>

\* the list self.history.append changes
HistoryOwners(self) == {self}

add_to_history(self, action, args) ==
    /\ now < MaxHistory
    /\ history' = [s \in Instances |->
                     IF s \in HistoryOwners(self)
                     THEN Append(history[s], CommandHistory(action, now, args))
                     ELSE history[s]]
    /\ now' = now + 1
    /\ last' = [op |-> "add_to_history", self |-> self]
    /\ UNCHANGED <<action_registry, file, registrations>>

save_history(self) ==
    /\ file' = json_dump(history[self])
    /\ last' = [op |-> "save_history", self |-> self]
    /\ UNCHANGED <<action_registry, history, now, registrations>>

load_and_replay_history(self) ==
    LET r == Replay(RegistryOf(self), file) IN
    /\ last' = [op |-> "load_and_replay_history", self |-> self,
                outcome |-> r.outcome, calls |-> r.calls]
    /\ UNCHANGED <<action_registry, history, now, file, registrations>>

Register ==
    \E pattern \in RegisteredPatterns, match_type \in MatchType, func \in Funcs :
        register_action(pattern, match_type, func)

Perform == \E self \in Instances, command \in Commands : perform_action(self, command)

AddToHistory ==
    \E self \in Instances, action \in HistoryActions, args \in HistoryArgs :
        add_to_history(self, action, args)

SaveHistory == \E self \in Instances : save_history(self)

LoadAndReplay == \E self \in Instances : load_and_replay_history(self)

\* registration and dispatch
Next == Register \/ Perform

Spec == Init /\ [][Next]_vars

\* dispatch, recording, saving and replaying against the shipped registry
NextHistory == Perform \/ AddToHistory \/ SaveHistory \/ LoadAndReplay

SpecHistory == Init /\ [][NextHistory]_vars

(***************************************************************************)
(* The matcher alone, over every pattern and command of a bounded length   *)
(* and the examples of the specification.                                  *)
(***************************************************************************)
Alphabet == {"a", "b", " "}

RECURSIVE StringsOfLen(_)
StringsOfLen(n) ==
    IF n = 0 THEN {""} ELSE {s \o c : s \in StringsOfLen(n - 1), c \in Alphabet}

Strings == UNION {StringsOfLen(n) : n \in 0..MaxLen}

MatchPatterns == Strings \cup {"turn on light"}

MatchCommands == Strings \cup {"please turn the light on now", "turn the light"}

InitMatch ==
    /\ action_registry = ShippedRegistry
    /\ history = [self \in Instances |-> <<>>]
    /\ now = 0
    /\ file = NoFile
    /\ registrations = 0
    /\ \E command \in MatchCommands, pattern \in MatchPatterns :
           last = [op |-> "input", command |-> command, pattern |-> pattern]

\* one call self.is_match(command, pattern, match_type)
CallIsMatch ==
    \E match_type \in MatchType :
        /\ last.op \in {"input", "is_match"}
        /\ last' = [op |-> "is_match", command |-> last.command, pattern |-> last.pattern,
                    match_type |-> match_type,
                    result |-> is_match(last.command, last.pattern, match_type)]
        /\ UNCHANGED <<action_registry, history, now, file, registrations>>

NextMatch == CallIsMatch

SpecMatch == InitMatch /\ [][NextMatch]_vars

(***************************************************************************)
(* Properties.  In a state whose last.op is "perform_action" the registry  *)
(* is the one the dispatch read: perform_action leaves it alone and every  *)
(* other operation sets last.op to its own name.                           *)
(***************************************************************************)
Dispatched == last.op = "perform_action"

Replayed == last.op = "load_and_replay_history"

CallOf(func, kwargs) == [action |-> func, kwargs |-> kwargs]

\* the entry of the registry that stands first among those whose matcher succeeds
FirstMatching(i, registry, command) ==
    /\ Matches(command, registry[i])
    /\ \A j \in 1..(i - 1) : ~Matches(command, registry[j])

\* C1: when two or more entries of the registry have a matcher that succeeds on
\* the command, perform_action calls the handler of the one that stands first
\* in registration order, calls no other handler, and its outcome is the
\* outcome of that call.
C1_FirstRegisteredWins ==
    Dispatched =>
        \A i \in 1..Len(action_registry) :
            (/\ FirstMatching(i, action_registry, last.command)
             /\ \E j \in (i + 1)..Len(action_registry) :
                    Matches(last.command, action_registry[j]))
            => /\ last.calls = <<CallOf(action_registry[i].action, NoArgs)>>
               /\ last.outcome = Call(action_registry[i].action, NoArgs)

\* two entries with different handlers match, and the result is the earlier one's
C1_Witness ==
    /\ Dispatched
    /\ \E i, j \in 1..Len(action_registry) :
           /\ i < j
           /\ FirstMatching(i, action_registry, last.command)
           /\ Matches(last.command, action_registry[j])
           /\ action_registry[i].action # action_registry[j].action
           /\ last.outcome = Return(Body(action_registry[i].action, NoArgs))

\* what the re module finds of a DYNAMIC entry's pattern in the command
Captures(entry, command) == re_search(entry.pattern, command)

\* C2: when a DYNAMIC entry's pattern is found in the command and no entry
\* before it matches, perform_action calls that entry's handler with exactly the
\* named captures as keyword arguments and returns the handler's result, not
\* "Command not recognized".
C2_DynamicDispatch ==
    Dispatched =>
        \A i \in 1..Len(action_registry) :
            (/\ action_registry[i].match_type = "DYNAMIC"
             /\ Captures(action_registry[i], last.command).ok
             /\ \A j \in 1..(i - 1) :
                    /\ action_registry[j].match_type \notin {"DYNAMIC", "STATIC"}
                    /\ ~Matches(last.command, action_registry[j]))
            => LET kwargs == Captures(action_registry[i], last.command).caps IN
               /\ last.calls = <<CallOf(action_registry[i].action, kwargs)>>
               /\ last.outcome = Call(action_registry[i].action, kwargs)
               /\ last.outcome # Return(NotRecognized)

\* the first DYNAMIC entry of the registry whose pattern is found in the command
\* with no matching entry before it; 0 when there is none
DynamicMatch(registry, command) ==
    LET found == {i \in 1..Len(registry) :
                     /\ registry[i].match_type = "DYNAMIC"
                     /\ Captures(registry[i], command).ok
                     /\ \A j \in 1..(i - 1) : ~Matches(command, registry[j])}
    IN IF found = {} THEN 0 ELSE Min(found)

\* C3: a dispatch in which a DYNAMIC entry matches the command makes the
\* instance's history one record longer, the new record's args being the
\* captures of the match; any other dispatch leaves the history as it was.
C3_HistoryAppend ==
    [][Dispatched' =>
        LET self == last'.self
            i == DynamicMatch(action_registry, last'.command) IN
        IF i # 0
        THEN /\ Len(history'[self]) = Len(history[self]) + 1
             /\ history'[self][Len(history'[self])].args
                    = Captures(action_registry[i], last'.command).caps
        ELSE history'[self] = history[self]]_vars

\* C4: perform_action returns "Command not recognized" exactly when no entry's
\* matcher succeeds on the command, and then calls no handler; otherwise it
\* calls one handler and its outcome is the outcome of that call.  Against the
\* shipped registry "do something unknown" is not recognized.
C4_NotRecognized ==
    Dispatched =>
        LET m == {i \in 1..Len(action_registry) : Matches(last.command, action_registry[i])}
        IN /\ (last.outcome = Return("Command not recognized")) <=> (m = {})
           /\ m = {} => last.calls = <<>>
           /\ m # {} => /\ Len(last.calls) = 1
                        /\ last.outcome = Call(last.calls[1].action, last.calls[1].kwargs)
           /\ (last.command = "do something unknown" /\ action_registry = ShippedRegistry)
                  => last.outcome = Return("Command not recognized")

C4_Witness ==
    /\ Dispatched
    /\ action_registry = ShippedRegistry
    /\ last.command = "do something unknown"
    /\ last.outcome = Return("Command not recognized")
    /\ last.calls = <<>>

\* the records of a history, file order, as the calls a replay should make
ExpectedCalls(registry, records) ==
    [i \in 1..Len(records) |->
        CallOf(registry[IndexOf(registry, records[i].action)].action, records[i].args)]

AllRegistered(registry, records) ==
    \A i \in 1..Len(records) : records[i].action \in Keys(registry)

ArgsFit(registry, records) ==
    \A i \in 1..Len(records) :
        DOMAIN records[i].args
            = Params(registry[IndexOf(registry, records[i].action)].action)

Prefix(h, n) == SubSeq(h, 1, n)

C6_UnknownActionOnReplay ==
    (Replayed /\ file.exists) =>
        \A k \in 1..Len(file.content) :
            (/\ file.content[k].action \notin Keys(action_registry)
             /\ AllRegistered(action_registry, Prefix(file.content, k - 1))
             /\ ArgsFit(action_registry, Prefix(file.content, k - 1)))
            => /\ last.outcome = Raise("KeyError")
               /\ last.calls = ExpectedCalls(action_registry, Prefix(file.content, k - 1))

\* the unknown id comes second: one handler was called before the error
C6_Witness ==
    /\ Replayed
    /\ file.exists
    /\ Len(file.content) = 2
    /\ file.content[1].action \in Keys(action_registry)
    /\ file.content[2].action \notin Keys(action_registry)
    /\ last.outcome = Raise("KeyError")
    /\ Len(last.calls) = 1

\* C7: a STATIC entry matches a command equal to its pattern: when no entry
\* before it matches, perform_action calls its handler and does not return
\* "Command not recognized".
C7_StaticExactMatch ==
    Dispatched =>
        \A i \in 1..Len(action_registry) :
            (/\ action_registry[i].match_type = "STATIC"
             /\ action_registry[i].pattern = last.command
             /\ \A j \in 1..(i - 1) : ~Matches(last.command, action_registry[j]))
            => /\ last.calls = <<CallOf(action_registry[i].action, NoArgs)>>
               /\ last.outcome # Return(NotRecognized)

\* the whitespace-delimited tokens of a pattern, by their positions
TokenAt(p, i, j) ==
    /\ i <= j
    /\ \A m \in i..j : Char(p, m) \notin Whitespace
    /\ i = 1 \/ Char(p, i - 1) \in Whitespace
    /\ j = Len(p) \/ Char(p, j + 1) \in Whitespace

\* p[i..j] stands somewhere in c, character by character
OccursIn(p, i, j, c) ==
    \E k \in 0..(Len(c) - (j - i + 1)) : \A m \in 0..(j - i) : Char(c, k + 1 + m) = Char(p, i + m)

AllTokensOccur(p, c) ==
    \A i, j \in 1..Len(p) : TokenAt(p, i, j) => OccursIn(p, i, j, c)

\* C8: the ALL_KEYWORDS matcher succeeds exactly when every whitespace-delimited
\* token of the pattern occurs as a substring of the command, in any order and
\* at any position; "turn on light" matches "please turn the light on now" and
\* does not match "turn the light".
C8_AllKeywords ==
    (last.op = "is_match" /\ last.match_type = "ALL_KEYWORDS") =>
        /\ last.result <=> AllTokensOccur(last.pattern, last.command)
        /\ (last.pattern = "turn on light" /\ last.command = "please turn the light on now")
               => last.result
        /\ (last.pattern = "turn on light" /\ last.command = "turn the light")
               => ~last.result

\* the tokens occur in the command in another order than in the pattern
C8_Witness ==
    /\ last.op = "is_match"
    /\ last.match_type = "ALL_KEYWORDS"
    /\ last.pattern = "turn on light"
    /\ last.command = "please turn the light on now"
    /\ last.result

\* the entries of the registry under the keys other than pattern, in order
Others(registry, pattern) == SelectSeq(registry, LAMBDA entry : entry.pattern # pattern)

\* C9: the keys of the registry are unique after any sequence of registrations;
\* a registration leaves one entry for its key, carrying the handler and the
\* matcher kind just given, and leaves the entries of the other keys as they
\* were, so every key carries what its last registration gave.
C9_UniqueKeys ==
    /\ [](\A i, j \in 1..Len(action_registry) :
            action_registry[i].pattern = action_registry[j].pattern => i = j)
    /\ [][last'.op = "register_action" =>
            /\ \E i \in 1..Len(action_registry') :
                   action_registry'[i] = Entry(last'.pattern, last'.action, last'.match_type)
            /\ Others(action_registry', last'.pattern)
                   = Others(action_registry, last'.pattern)]_vars

\* a shipped key registered again with another handler and another kind
C9_Witness ==
    /\ last.op = "register_action"
    /\ last.pattern = "play music"
    /\ last.action = "make_rectangle"
    /\ last.match_type = "SUBSTRING"
    /\ Len(action_registry) = 3
    /\ action_registry[2] = Entry("play music", "make_rectangle", "SUBSTRING")

\* C10: an instance of any class dispatches against the one registry, so the
\* handler it calls is the first matching entry's whatever class defines it (a
\* PaintAppControl given "turn on the light" returns "Turning on the light");
\* add_to_history on one instance appends to that instance's history only.
C10_SharedRegistryOwnHistory ==
    /\ [](Dispatched =>
            /\ \A i \in 1..Len(action_registry) :
                   FirstMatching(i, action_registry, last.command)
                       => last.calls = <<CallOf(action_registry[i].action, NoArgs)>>
            /\ (/\ ClassOf(last.self) = "PaintAppControl"
                /\ last.command = "turn on the light"
                /\ action_registry = ShippedRegistry)
                   => last.outcome = Return("Turning on the light"))
    /\ [][last'.op = "add_to_history" =>
            /\ Len(history'[last'.self]) = Len(history[last'.self]) + 1
            /\ \A s \in Instances \ {last'.self} : history'[s] = history[s]]_vars

\* a PaintAppControl runs a TestControl method while the other instance's
\* history holds a record and its own holds none
C10_Witness ==
    /\ Dispatched
    /\ ClassOf(last.self) = "PaintAppControl"
    /\ last.command = "turn on the light"
    /\ last.calls = <<CallOf("turn_on_light", NoArgs)>>
    /\ OwnerOf("turn_on_light") # ClassOf(last.self)
    /\ last.outcome = Return("Turning on the light")
    /\ history[last.self] = <<>>
    /\ \E s \in Instances : Len(history[s]) = 1

====
